---- MODULE Spec2Model ----
(***************************************************************************)
(* Model of the wallet of new-js-sdk (src/wallet/wallet.js): the Wallet    *)
(* class, its static factories, encryption of the keychain, request        *)
(* signing and time synchronisation.                                       *)
(*                                                                         *)
(* JavaScript values are modelled as tokens.  A string is a TLA+ string;   *)
(* the tokens Nil, NumberValue and ObjectValue stand for undefined/null, a *)
(* number and a plain object.  Bit arrays and the strings derived from     *)
(* them (keys, wallet ids) are sequences of tokens: the symbolic term that *)
(* names how the value was derived.  Times are in milliseconds.            *)
(***************************************************************************)
EXTENDS Integers, Sequences, FiniteSets, TLC

VARIABLES wallet, issued, last, signed, payload, decoded, call

vars == <<wallet, issued, last, signed, payload, decoded, call>>

\* what the methods of Wallet never touch: the payload under study, the
\* operation being decoded, the frame of a signRequest in progress
aside == <<payload, decoded, call>>

(***************************************************************************)
(* Bounds of the model.                                                    *)
(***************************************************************************)
\* local clock readings are the multiples of ClockStepMs up to MaxClockSteps
MaxClockSteps == 1
ClockStepMs == 1500

\* under SpecClock the local clock is read with sub-second resolution: the
\* multiples of FineStepMs up to MaxFineSteps
MaxFineSteps == 8
FineStepMs == 250

\* under SpecPayload a uri is a text of at most MaxUriLen pieces
MaxUriLen == 3

MsPerSec == 1000
SIGNATURE_VALID_SEC == 60

(***************************************************************************)
(* JavaScript values.                                                      *)
(***************************************************************************)
Nil == "<nil>"
NumberValue == "<number>"
ObjectValue == "<object>"

isNil(x) == x = Nil
isString(x) == x \notin {Nil, NumberValue, ObjectValue}
Truthy(x) == x \notin {Nil, ""}

Emails == {"a@x", "b@x"}
EmailInputs == {"a@x", "", Nil}

Seeds == {"SA", "SB"}
SeedInputs == {"SA", "bad"}

PublicKeys == {"GA", "GB", "GZ"}
AccountIdInputs == {"GA", "GZ", "bad", Nil}

Passwords == {"pw1", "pw2"}
PasswordInputs == Passwords \cup {"", NumberValue}

KdfParams == {"k1", "k2"}

Salts == {"s1", "s2"}

Uris == {"/users"}
UriInputs == Uris \cup {"", Nil}

ClockReadings == {n * ClockStepMs : n \in 0..MaxClockSteps}
FineReadings == {n * FineStepMs : n \in 0..MaxFineSteps}

\* a wallet id is a string; the model keeps it as a sequence of tokens
NoId == <<>>
Str(s) == <<s>>
WalletIdInputs == {NoId, Str(""), Str("ab12"), Str("zz"), Str(NumberValue)}
HexStrings == {"ab12"}

isStringId(id) == id # NoId /\ (Len(id) > 1 \/ isString(id[1]))
TruthyId(id) == id # NoId /\ id # Str("")

(***************************************************************************)
(* Keypair (src/base/keypair, used through its interface).                 *)
(***************************************************************************)
isValidSecretKey(s) == s \in Seeds
isValidPublicKey(a) == a \in PublicKeys

\* the address of a seed.  "SA~" and "SB~" are seeds no call is ever given:
\* they stand for a secret other than "SA" / "SB" under the same address, for
\* comparing what a wallet emits with what it would emit under another secret
PublicKeyOf(s) ==
    IF s \in {"SA", "SA~"} THEN "GA"
    ELSE IF s \in {"SB", "SB~"} THEN "GB"
    ELSE Nil

NoKeypair == [kind |-> "nil", val |-> Nil]
KeypairFromSecret(s) == [kind |-> "Keypair", val |-> s]
KeypairAccountId(kp) == PublicKeyOf(kp.val)
KeypairSecret(kp) == kp.val

KeypairInputs ==
    {KeypairFromSecret(s) : s \in Seeds}
        \cup {[kind |-> "string", val |-> s] : s \in SeedInputs}
        \cup {NoKeypair, [kind |-> "object", val |-> Nil]}

RecoveryKeypairs == {KeypairFromSecret(s) : s \in Seeds}

(***************************************************************************)
(* crypto (src/wallet/crypto) and the sjcl / JSON codecs.                  *)
(***************************************************************************)
KdfRejects(kdfParams) == kdfParams \notin KdfParams

calculateMasterKey(salt, email, password, kdfParams) ==
    <<"masterKey", salt, email, password, kdfParams>>

deriveWalletId(masterKey) == <<"walletId">> \o masterKey

deriveWalletKey(masterKey) == <<"walletKey">> \o masterKey

hexFromBits(bits) == <<"hex">> \o bits

JSONstringify(obj) == <<"accountId", obj.accountId, "seed", obj.seed>>

JSONparse(text) == [accountId |-> text[2], seed |-> text[4]]

encryptData(text, key) == [ciphertext |-> text, tag |-> key]

decryptOk(data, key) == data.tag = key

decryptData(data, key) == data.ciphertext

NoKeychain == encryptData(<<>>, <<>>)

(***************************************************************************)
(* The Wallet object.                                                      *)
(***************************************************************************)
NoWallet ==
    [live |-> FALSE, email |-> Nil, keypair |-> NoKeypair, accountId |-> Nil,
     id |-> NoId, clockDiff |-> 0]

NoArtifact ==
    [id |-> NoId, accountId |-> Nil, email |-> Nil, salt |-> Nil,
     keychainData |-> NoKeychain]

Thrown(err, crypto, w) ==
    [ok |-> FALSE, err |-> err, crypto |-> crypto, wallet |-> w,
     art |-> NoArtifact, id |-> NoId]

Returned(crypto, w, art, id) ==
    [ok |-> TRUE, err |-> "", crypto |-> crypto, wallet |-> w,
     art |-> art, id |-> id]

\* the keypair a constructor argument is parsed into
CtorKeypair(keypair) ==
    IF keypair.kind = "string" THEN KeypairFromSecret(keypair.val) ELSE keypair

\* new Wallet(email, keypair, accountId, walletId)
WalletCtor(email, keypair, accountId, walletId) ==
    IF isNil(email) THEN Thrown("Email is required.", <<>>, NoWallet)
    ELSE IF keypair.kind = "nil"
        THEN Thrown("No keypair provided.", <<>>, NoWallet)
    ELSE IF keypair.kind = "string" /\ ~isValidSecretKey(keypair.val)
        THEN Thrown("Invalid secret seed.", <<>>, NoWallet)
    ELSE IF keypair.kind \notin {"string", "Keypair"}
        THEN Thrown("Invalid keypair.", <<>>, NoWallet)
    ELSE IF ~isValidPublicKey(accountId)
        THEN Thrown("Invalid account ID.", <<>>, NoWallet)
    ELSE IF TruthyId(walletId) /\ ~isStringId(walletId)
        THEN Thrown("Hex encoded wallet ID expected.", <<>>, NoWallet)
    ELSE Returned(<<>>,
                  [live |-> TRUE, email |-> email,
                   keypair |-> CtorKeypair(keypair),
                   accountId |-> accountId, id |-> walletId, clockDiff |-> 0],
                  NoArtifact, NoId)

\* generate passing a fixed account id in place of the keypair's own
generateForeignAccount(email, keypair) ==
    WalletCtor(email, keypair, "GZ", NoId)

\* Wallet.generate(email), keypair being the result of Keypair.random()
generate(email, keypair) ==
    WalletCtor(email, keypair, KeypairAccountId(keypair), NoId)

\* Wallet.deriveId(email, password, kdfParams, salt)
deriveId(email, password, kdfParams, salt) ==
    IF KdfRejects(kdfParams)
    THEN Thrown("KdfError", <<"calculateMasterKey">>, NoWallet)
    ELSE Returned(<<"calculateMasterKey", "deriveWalletId">>, NoWallet,
                  NoArtifact,
                  hexFromBits(deriveWalletId(
                      calculateMasterKey(salt, email, password, kdfParams))))

\* the wallet fromEncrypted builds out of the decrypted keychain
FromDecrypted(email, decryptedKeychain, rawWalletId) ==
    IF ~isValidSecretKey(decryptedKeychain.seed)
    THEN Thrown("Invalid secret seed.", <<>>, NoWallet)
    ELSE WalletCtor(email, KeypairFromSecret(decryptedKeychain.seed),
                    decryptedKeychain.accountId, hexFromBits(rawWalletId))

\* fromEncrypted reading the keychain without the check of the derived key
fromEncryptedUnauthenticated(keychainData, kdfParams, salt, email, password) ==
    IF KdfRejects(kdfParams)
    THEN Thrown("KdfError", <<"calculateMasterKey">>, NoWallet)
    ELSE LET rawMasterKey == calculateMasterKey(salt, email, password, kdfParams)
             rawWalletId == deriveWalletId(rawMasterKey)
             rawWalletKey == deriveWalletKey(rawMasterKey)
             built == FromDecrypted(email,
                          JSONparse(decryptData(keychainData, rawWalletKey)),
                          rawWalletId)
         IN  [built EXCEPT !.crypto = <<"calculateMasterKey", "deriveWalletId",
                                        "deriveWalletKey", "decryptData">>]

\* Wallet.fromEncrypted(keychainData, kdfParams, salt, email, password)
fromEncrypted(keychainData, kdfParams, salt, email, password) ==
    IF KdfRejects(kdfParams)
    THEN Thrown("KdfError", <<"calculateMasterKey">>, NoWallet)
    ELSE LET rawMasterKey == calculateMasterKey(salt, email, password, kdfParams)
             rawWalletId == deriveWalletId(rawMasterKey)
             rawWalletKey == deriveWalletKey(rawMasterKey)
             called == <<"calculateMasterKey", "deriveWalletId",
                         "deriveWalletKey", "decryptData">>
         IN  IF ~decryptOk(keychainData, rawWalletKey)
             THEN Thrown("DecryptionError", called, NoWallet)
             ELSE LET built == FromDecrypted(email,
                                   JSONparse(decryptData(keychainData, rawWalletKey)),
                                   rawWalletId)
                  IN  [built EXCEPT !.crypto = called]

\* Wallet.fromRecoverySeed(kdfParams, salt, email, recoverySeed)
fromRecoverySeed(kdfParams, salt, email, recoverySeed) ==
    IF ~isValidSecretKey(recoverySeed)
    THEN Thrown("Invalid secret seed.", <<>>, NoWallet)
    ELSE LET recoveryKeypair == KeypairFromSecret(recoverySeed)
             walletId == deriveId(email, recoverySeed, kdfParams, salt)
         IN  IF ~walletId.ok THEN walletId
             ELSE [WalletCtor(email, recoveryKeypair,
                              KeypairAccountId(recoveryKeypair), walletId.id)
                   EXCEPT !.crypto = walletId.crypto]

\* a getter that returns _id without looking at it
getIdUnchecked(w) == Returned(<<>>, w, NoArtifact, w.id)

\* get id ()
getId(w) ==
    IF ~TruthyId(w.id)
    THEN Thrown("This wallet has no wallet ID yet.", <<>>, w)
    ELSE Returned(<<>>, w, NoArtifact, w.id)

\* rawKeychainData with the public address where the secret seed belongs
rawKeychainDataPublic(w) ==
    [accountId |-> w.accountId, seed |-> KeypairAccountId(w.keypair)]

\* the plaintext encrypt serialises
rawKeychainData(w) ==
    [accountId |-> w.accountId, seed |-> KeypairSecret(w.keypair)]

\* EncryptAborted had encrypt stored the wallet id before it encrypted
EncryptAbortedStored(w, masterKey) ==
    [w EXCEPT !.id = hexFromBits(deriveWalletId(masterKey))]

\* the wallet as encrypt leaves it when encryptData throws
EncryptAborted(w, masterKey) == w

\* EncryptStored deriving the stored id with the wallet key derivation
EncryptStoredWalletKey(w, masterKey) ==
    [w EXCEPT !.id = hexFromBits(deriveWalletKey(masterKey))]

\* the wallet as encrypt leaves it when it returns
EncryptStored(w, masterKey) ==
    [w EXCEPT !.id = hexFromBits(deriveWalletId(masterKey))]

\* encrypt(kdfParams, password) on wallet w; salt is the result of
\* randomBytes(16), fault tells whether the cipher throws
encrypt(w, kdfParams, password, salt, fault) ==
    IF isNil(kdfParams) THEN Thrown("KDF params required", <<>>, w)
    ELSE IF ~isString(password) \/ password = ""
        THEN Thrown("Password must be a non-empty string", <<>>, w)
    ELSE IF KdfRejects(kdfParams)
        THEN Thrown("KdfError", <<"randomBytes", "calculateMasterKey">>, w)
    ELSE LET masterKey == calculateMasterKey(salt, w.email, password, kdfParams)
             walletKey == deriveWalletKey(masterKey)
         IN  IF fault
             THEN Thrown("EncryptionError",
                         <<"randomBytes", "calculateMasterKey",
                           "deriveWalletKey", "encryptData">>,
                         EncryptAborted(w, masterKey))
             ELSE LET keychainData ==
                          encryptData(JSONstringify(rawKeychainData(w)), walletKey)
                      after == EncryptStored(w, masterKey)
                  IN  Returned(<<"randomBytes", "calculateMasterKey",
                                 "deriveWalletKey", "encryptData",
                                 "deriveWalletId">>,
                               after,
                               [id |-> after.id, accountId |-> w.accountId,
                                email |-> w.email, salt |-> salt,
                                keychainData |-> keychainData],
                               after.id)

\* recoveryWallet keeping the account id of the wallet it is made from
recoveryWalletOfOwnAccount(w, recoveryKeypair) ==
    WalletCtor(w.email, w.keypair, w.accountId, NoId)

\* recoveryWallet holding the recovery keypair in place of the wallet's own
recoveryWalletOfRecoveryKeypair(w, recoveryKeypair) ==
    WalletCtor(w.email, recoveryKeypair, KeypairAccountId(recoveryKeypair), NoId)

\* the throwaway wallet encryptRecoveryData encrypts
recoveryWallet(w, recoveryKeypair) ==
    WalletCtor(w.email, w.keypair, KeypairAccountId(recoveryKeypair), NoId)

\* encryptRecoveryData calling encrypt on the wallet itself
encryptRecoveryDataOnSelf(w, kdfParams, recoveryKeypair, salt, fault) ==
    IF recoveryKeypair.kind # "Keypair"
    THEN Thrown("TypeError", <<>>, w)
    ELSE encrypt(w, kdfParams, KeypairSecret(recoveryKeypair), salt, fault)

\* encryptRecoveryData(kdfParams, recoveryKeypair) on wallet w
encryptRecoveryData(w, kdfParams, recoveryKeypair, salt, fault) ==
    IF recoveryKeypair.kind # "Keypair"
    THEN Thrown("TypeError", <<>>, w)
    ELSE LET made == recoveryWallet(w, recoveryKeypair)
         IN  IF ~made.ok THEN [made EXCEPT !.wallet = w]
             ELSE [encrypt(made.wallet, kdfParams,
                           KeypairSecret(recoveryKeypair), salt, fault)
                   EXCEPT !.wallet = w]

\* a _getTimestamp that subtracts the clock difference from the unrounded
\* clock
getTimestampOfExactClock(w, now) == now - w.clockDiff

\* _getTimestamp (), in milliseconds
getTimestamp(w, now) == (now \div MsPerSec) * MsPerSec - w.clockDiff

\* the expiry signRequest computes, in seconds
validUntilOf(w, now) ==
    (getTimestamp(w, now) + SIGNATURE_VALID_SEC * MsPerSec) \div MsPerSec

signatureBaseOf(uri, validUntil) ==
    <<"{ uri: '", uri, "', valid_untill: '", ToString(validUntil), "'}">>

(***************************************************************************)
(* The signature base as text.  A text is the sequence of the pieces of a  *)
(* string; no piece is the beginning of another, so two texts are equal    *)
(* exactly when the strings they spell are.  The pieces are those of the   *)
(* template of signRequest, the characters of a decimal number and one     *)
(* ordinary character.                                                     *)
(***************************************************************************)
Quote == "'"
UriLabel == "{ uri: "
ValidLabel == ", valid_untill: "
Brace == "}"
Minus == "-"

UriPieces == {"a", "6", Quote, ValidLabel}
UriTexts == UNION {[1..n -> UriPieces] : n \in 1..MaxUriLen}

\* Number.prototype.toString of an integer, as text
RECURSIVE Decimal(_)
Decimal(n) ==
    IF n < 0 THEN <<Minus>> \o Decimal(-n)
    ELSE IF n < 10 THEN <<ToString(n)>>
    ELSE Decimal(n \div 10) \o <<ToString(n % 10)>>

ExpiryValues == {6, 60, 66, -6}

\* a template that writes the expiry right after the uri
signatureBaseTextUnseparated(uri, validUntil) ==
    <<UriLabel, Quote>> \o uri \o validUntil \o <<Quote, Brace>>

\* `{ uri: '${uri}', valid_untill: '${validUntil.toString()}'}`
signatureBaseText(uri, validUntil) ==
    <<UriLabel, Quote>> \o uri \o <<Quote, ValidLabel, Quote>> \o validUntil
        \o <<Quote, Brace>>

NoSigned ==
    [validUntil |-> "", publicKey |-> Nil, signature |-> <<>>, base |-> <<>>]

\* a signRequest that fills X-AuthPublicKey from keypair.secret()
signRequestWithSecretHeader(w, uri, now) ==
    LET validUntil == validUntilOf(w, now)
        signatureBase == signatureBaseOf(uri, validUntil)
    IN  [validUntil |-> ToString(validUntil),
         publicKey |-> KeypairSecret(w.keypair),
         signature |-> <<"signature", KeypairAccountId(w.keypair), "hash">>
                           \o signatureBase,
         base |-> signatureBase]

\* the headers of signRequest(uri) and the signature base it logs
signRequest(w, uri, now) ==
    LET validUntil == validUntilOf(w, now)
        signatureBase == signatureBaseOf(uri, validUntil)
    IN  [validUntil |-> ToString(validUntil),
         publicKey |-> KeypairAccountId(w.keypair),
         signature |-> <<"signature", KeypairAccountId(w.keypair), "hash">>
                           \o signatureBase,
         base |-> signatureBase]

\* a synchronizeTime that stores server time minus local time
synchronizedServerMinusLocal(w, timestamp, now) ==
    [w EXCEPT !.clockDiff = timestamp - now]

\* an expiry header computed anew when the headers are built
headerValidUntilRecomputed(w, frame, now) == ToString(validUntilOf(w, now))

\* validUntil.toString() of the headers: the local of the call
headerValidUntil(w, frame, now) == frame.validUntil

\* the wallet after synchronizeTime(timestamp)
synchronized(w, timestamp, now) == [w EXCEPT !.clockDiff = now - timestamp]

(***************************************************************************)
(* Operations (src/base/operation.js).  An xdr.Operation is its optional   *)
(* source account and its body: the discriminant (switch) and the value of *)
(* that arm.  An account id inside an operation is the raw ed25519 key;    *)
(* outside it is the address string.                                       *)
(***************************************************************************)
\* the discriminants operationToObject has a case for
HandledTypes ==
    {"createAccount", "manageSigner", "manageKeyValue", "stamp", "license",
     "manageAccountRole", "createDatum", "updateDatum", "removeDatum",
     "manageCreatePollRequest", "reviewRequest",
     "bindExternalSystemAccountId", "cancelAtomicSwapAsk",
     "cancelChangeRoleRequest", "closeSwap", "createAmlAlert",
     "createAtomicSwapAskRequest", "createAtomicSwapBidRequest",
     "createChangeRoleRequest", "createIssuanceRequest",
     "createKycRecoveryRequest", "createManageLimitsRequest",
     "createManageOfferRequest", "createPaymentRequest",
     "createWithdrawalRequest", "initiateKycRecovery", "manageAsset",
     "manageLimit", "manageOffer", "managePoll", "manageSale",
     "manageVote", "openSwap", "payment", "createPreissuanceRequest",
     "createRedemptionRequest", "removeAsset", "removeAssetPair",
     "manageSignerRole", "createDeferredPaymentCreationRequest",
     "cancelDeferredPaymentCreationRequest",
     "createCloseDeferredPaymentRequest",
     "cancelCloseDeferredPaymentRequest", "createSaleRequest",
     "createDataCreationRequest", "cancelDataCreationRequest",
     "createDataUpdateRequest", "cancelDataUpdateRequest",
     "createDataRemoveRequest", "cancelDataRemoveRequest",
     "manageAssetPair", "manageBalance"}

\* the discriminants the builders and the decoder of operation.js name
OperationTypes == HandledTypes \cup {"setFee"}

\* the arms whose case converts no attribute
UnconvertedTypes == {"createSaleRequest", "manageAssetPair", "manageBalance"}

Builders ==
    {"payment", "setFees", "manageBalance", "manageAssetPair",
     "createPaymentRequest", "updateData"}

\* xdr.OperationBody.<arm> each builder fills
BuiltBody(builder) ==
    CASE builder = "payment" -> "payment"
      [] builder = "setFees" -> "setFee"
      [] builder = "manageBalance" -> "manageBalance"
      [] builder = "manageAssetPair" -> "manageAssetPair"
      [] builder = "createPaymentRequest" -> "createPaymentRequest"
      [] builder = "updateData" -> "updateDatum"

NoAccount == <<>>

\* Keypair.fromAccountId(address).xdrAccountId()
xdrAccountId(address) == <<"ed25519", address>>

\* encodeCheck('accountId', accountId.ed25519())
accountIdtoAddress(accountId) == accountId[2]

NoOperation == [sourceAccount |-> NoAccount, switch |-> Nil, value |-> Nil]

NoObject ==
    [ok |-> FALSE, err |-> "", type |-> Nil, source |-> Nil,
     converted |-> FALSE]

\* a builder called with opts: it throws on attributes it finds invalid and
\* on an invalid opts.source; setSourceAccount sets the source account when
\* opts.source is given
buildOperation(builder, source, attrs) ==
    IF attrs = "bad" THEN [ok |-> FALSE, op |-> NoOperation]
    ELSE IF Truthy(source) /\ ~isValidPublicKey(source)
        THEN [ok |-> FALSE, op |-> NoOperation]
    ELSE [ok |-> TRUE,
          op |-> [sourceAccount |-> IF Truthy(source) THEN xdrAccountId(source)
                                    ELSE NoAccount,
                  switch |-> BuiltBody(builder), value |-> attrs]]

\* operation.toXDR('hex'): the optional source account, then the union
toXDR(op) ==
    (IF op.sourceAccount = NoAccount THEN <<"0">>
     ELSE <<"1">> \o op.sourceAccount)
        \o <<op.switch, op.value>>

\* xdr.Operation.fromXDR
fromXDR(bytes) ==
    IF bytes[1] = "1"
    THEN [sourceAccount |-> SubSeq(bytes, 2, 3), switch |-> bytes[4],
          value |-> bytes[5]]
    ELSE [sourceAccount |-> NoAccount, switch |-> bytes[2], value |-> bytes[3]]

\* Operation.operationToObject(operation); the ToObject function of a case
\* fills the attributes of the arm and leaves source and type
operationToObject(operation) ==
    LET source == IF operation.sourceAccount # NoAccount
                  THEN accountIdtoAddress(operation.sourceAccount)
                  ELSE Nil
        type == operation.switch
    IN  IF type \notin HandledTypes
        THEN [NoObject EXCEPT !.err = "Unknown operation", !.type = type]
        ELSE [ok |-> TRUE, err |-> "", type |-> type, source |-> source,
              converted |-> type \notin UnconvertedTypes]

(***************************************************************************)
(* State.                                                                  *)
(*   wallet  the Wallet object the program holds (NoWallet before the      *)
(*           first one is built)                                           *)
(*   issued  the artifact the last successful encrypt / encryptRecoveryData*)
(*           of this wallet returned, with the arguments of that call and  *)
(*           the identity of the wallet it was called on                   *)
(*   last    the last call: its name, its arguments, whether it returned   *)
(*           or threw, the crypto functions it called, the id it returned  *)
(*   signed  what the last call returned if it was signRequest             *)
(***************************************************************************)
NoTimestamp == [kind |-> "nil", val |-> 0]
TimestampValues == {1000}
TimestampInputs ==
    {[kind |-> "number", val |-> t] : t \in TimestampValues}
        \cup {NoTimestamp, [kind |-> "string", val |-> 0]}

\* server timestamps that make the clock difference zero, whole, fractional,
\* positive and negative
SkewedTimestampValues == {0, 1250, 2000}
SkewedTimestampInputs ==
    {[kind |-> "number", val |-> t] : t \in SkewedTimestampValues}
        \cup {NoTimestamp}

NoArgs ==
    [email |-> Nil, keypair |-> NoKeypair, accountId |-> Nil, walletId |-> NoId,
     kdfParams |-> Nil, password |-> Nil, salt |-> Nil, uri |-> Nil,
     timestamp |-> NoTimestamp, now |-> 0]

Identity(w) ==
    [email |-> w.email, accountId |-> w.accountId,
     secret |-> KeypairSecret(w.keypair)]

NoIssued ==
    [kind |-> "none", art |-> NoArtifact, kdfParams |-> Nil, password |-> Nil,
     owner |-> Identity(NoWallet), recoveryKeypair |-> NoKeypair]

NoPayload == [uri |-> <<>>, validUntil |-> <<>>, text |-> <<>>]
\* an operation on its way from a builder, or from the wire, to the object
\* operationToObject makes of it
NoDecoded ==
    [stage |-> "none", builder |-> Nil, source |-> Nil, op |-> NoOperation,
     bytes |-> <<>>, object |-> NoObject]
\* the frame of a signRequest call: where the call stands, its argument, its
\* locals validUntil, signatureBase and signature, and what it has read of
\* the clock and of _clockDiff (how often, and the values)
NoCall ==
    [pc |-> "idle", uri |-> Nil, now |-> 0, offset |-> 0, reads |-> 0,
     validUntil |-> "", base |-> <<>>, signature |-> <<>>]

Outcome(op, args, res, idBefore) ==
    [op |-> op, ok |-> res.ok, err |-> res.err, crypto |-> res.crypto,
     id |-> res.id, args |-> args, idBefore |-> idBefore]

Init ==
    /\ wallet = NoWallet
    /\ issued = NoIssued
    /\ last = Outcome("none", NoArgs, Returned(<<>>, NoWallet, NoArtifact, NoId), NoId)
    /\ signed = NoSigned
    /\ payload = NoPayload
    /\ decoded = NoDecoded
    /\ call = NoCall

\* a static factory hands the program a new wallet, or throws and leaves the
\* program with the wallet it had
Adopt(res) == wallet' = IF res.ok THEN res.wallet ELSE wallet

\* a wallet built from scratch has no artifact yet
Fresh(res) == issued' = IF res.ok THEN NoIssued ELSE issued

Construct ==
    /\ \E email \in EmailInputs, keypair \in KeypairInputs,
          accountId \in AccountIdInputs, walletId \in WalletIdInputs :
          LET res == WalletCtor(email, keypair, accountId, walletId)
          IN  /\ Adopt(res)
              /\ Fresh(res)
              /\ last' = Outcome("new",
                                 [NoArgs EXCEPT !.email = email,
                                                !.keypair = keypair,
                                                !.accountId = accountId,
                                                !.walletId = walletId],
                                 res, NoId)
    /\ signed' = NoSigned
    /\ UNCHANGED aside


Generate ==
    /\ \E email \in {"a@x", Nil}, seed \in Seeds :
          LET res == generate(email, KeypairFromSecret(seed))
          IN  /\ Adopt(res)
              /\ Fresh(res)
              /\ last' = Outcome("generate", [NoArgs EXCEPT !.email = email], res,
                              NoId)
    /\ signed' = NoSigned
    /\ UNCHANGED aside

FromEncrypted ==
    /\ issued.kind # "none"
    /\ \E kdfParams \in KdfParams, salt \in Salts, email \in Emails,
          password \in Passwords \cup Seeds :
          LET res == fromEncrypted(issued.art.keychainData, kdfParams, salt,
                                   email, password)
          IN  /\ Adopt(res)
              /\ last' = Outcome("fromEncrypted",
                                 [NoArgs EXCEPT !.kdfParams = kdfParams,
                                                !.salt = salt,
                                                !.email = email,
                                                !.password = password],
                                 res, NoId)
    /\ signed' = NoSigned
    /\ UNCHANGED issued
    /\ UNCHANGED aside

FromRecoverySeed ==
    /\ \E kdfParams \in {"k1", "kbad"}, salt \in {"s1"},
          email \in {"a@x", Nil}, recoverySeed \in SeedInputs :
          LET res == fromRecoverySeed(kdfParams, salt, email, recoverySeed)
          IN  /\ Adopt(res)
              /\ Fresh(res)
              /\ last' = Outcome("fromRecoverySeed",
                                 [NoArgs EXCEPT !.kdfParams = kdfParams,
                                                !.salt = salt,
                                                !.email = email,
                                                !.password = recoverySeed],
                                 res, NoId)
    /\ signed' = NoSigned
    /\ UNCHANGED aside

DeriveId ==
    /\ \E kdfParams \in {"k1", "kbad"}, salt \in {"s1"}, email \in {"a@x"},
          password \in {"pw1", "SA"} :
          last' = Outcome("deriveId",
                          [NoArgs EXCEPT !.kdfParams = kdfParams, !.salt = salt,
                                         !.email = email, !.password = password],
                          deriveId(email, password, kdfParams, salt), wallet.id)
    /\ signed' = NoSigned
    /\ UNCHANGED <<wallet, issued>>
    /\ UNCHANGED aside

GetId ==
    /\ wallet.live
    /\ last' = Outcome("id", NoArgs, getId(wallet), wallet.id)
    /\ signed' = NoSigned
    /\ UNCHANGED <<wallet, issued>>
    /\ UNCHANGED aside

Issue(kind, res, kdfParams, password, recoveryKeypair) ==
    issued' = IF res.ok
              THEN [kind |-> kind, art |-> res.art, kdfParams |-> kdfParams,
                    password |-> password, owner |-> Identity(wallet),
                    recoveryKeypair |-> recoveryKeypair]
              ELSE issued

Encrypt ==
    /\ wallet.live
    /\ \E kdfParams \in {"k1", "kbad", Nil}, password \in PasswordInputs,
          salt \in Salts, fault \in BOOLEAN :
          LET res == encrypt(wallet, kdfParams, password, salt, fault)
          IN  /\ wallet' = res.wallet
              /\ Issue("encrypt", res, kdfParams, password, NoKeypair)
              /\ last' = Outcome("encrypt", NoArgs, res, wallet.id)
    /\ signed' = NoSigned
    /\ UNCHANGED aside

EncryptRecoveryData ==
    /\ wallet.live
    /\ \E kdfParams \in {"k1", "kbad", Nil},
          recoveryKeypair \in RecoveryKeypairs \cup {NoKeypair},
          salt \in Salts, fault \in BOOLEAN :
          LET res == encryptRecoveryData(wallet, kdfParams, recoveryKeypair,
                                         salt, fault)
          IN  /\ wallet' = res.wallet
              /\ Issue("recovery", res, kdfParams,
                       KeypairSecret(recoveryKeypair), recoveryKeypair)
              /\ last' = Outcome("encryptRecoveryData", NoArgs, res, wallet.id)
    /\ signed' = NoSigned
    /\ UNCHANGED aside

SignRequestAt(uris, readings) ==
    /\ wallet.live
    /\ \E uri \in uris, now \in readings :
          /\ signed' = IF Truthy(uri) THEN signRequest(wallet, uri, now)
                       ELSE NoSigned
          /\ last' = Outcome("signRequest",
                             [NoArgs EXCEPT !.uri = uri, !.now = now],
                             IF Truthy(uri)
                             THEN Returned(<<"hash", "signDecorated">>, wallet,
                                           NoArtifact, NoId)
                             ELSE Thrown("URI required.", <<>>, wallet),
                             wallet.id)
    /\ UNCHANGED <<wallet, issued>>
    /\ UNCHANGED aside

SynchronizeTimeAt(timestamps, readings) ==
    /\ wallet.live
    /\ \E timestamp \in timestamps, now \in readings :
          LET res == IF timestamp.kind # "number"
                     THEN Thrown("Invalid timestamp.", <<>>, wallet)
                     ELSE Returned(<<>>, synchronized(wallet, timestamp.val, now),
                                   NoArtifact, NoId)
          IN  /\ wallet' = res.wallet
              /\ last' = Outcome("synchronizeTime",
                                 [NoArgs EXCEPT !.timestamp = timestamp,
                                                !.now = now],
                                 res, wallet.id)
    /\ signed' = NoSigned
    /\ UNCHANGED issued
    /\ UNCHANGED aside

\* the signature base signRequest builds for a uri and an expiry
BuildSignatureBase ==
    /\ \E uri \in UriTexts, validUntil \in ExpiryValues :
          payload' = [uri |-> uri, validUntil |-> Decimal(validUntil),
                      text |-> signatureBaseText(uri, Decimal(validUntil))]
    /\ UNCHANGED <<wallet, issued, last, signed, decoded, call>>

(***************************************************************************)
(* signRequest statement by statement, for the calls of synchronizeTime    *)
(* that run between its statements.                                        *)
(***************************************************************************)
\* if (!uri) throw
SignEnter ==
    /\ wallet.live
    /\ call.pc \in {"idle", "done"}
    /\ \E uri \in UriInputs :
          IF Truthy(uri)
          THEN /\ call' = [NoCall EXCEPT !.pc = "timestamp", !.uri = uri]
               /\ UNCHANGED last
          ELSE /\ call' = NoCall
               /\ last' = Outcome("signRequest", [NoArgs EXCEPT !.uri = uri],
                                  Thrown("URI required.", <<>>, wallet),
                                  wallet.id)
    /\ signed' = NoSigned
    /\ UNCHANGED <<wallet, issued, payload, decoded>>

\* validUntil = Math.floor(this._getTimestamp() + SIGNATURE_VALID_SEC).toString()
SignReadTimestamp ==
    /\ call.pc = "timestamp"
    /\ \E now \in FineReadings :
          call' = [call EXCEPT !.pc = "base", !.now = now,
                               !.offset = wallet.clockDiff,
                               !.reads = @ + 1,
                               !.validUntil = ToString(validUntilOf(wallet, now))]
    /\ UNCHANGED <<wallet, issued, last, signed, payload, decoded>>

\* signatureBase = `{ uri: ..., valid_untill: ...}`, logged
SignBuildBase ==
    /\ call.pc = "base"
    /\ call' = [call EXCEPT !.pc = "sign",
                            !.base = <<"{ uri: '", call.uri,
                                       "', valid_untill: '", call.validUntil,
                                       "'}">>]
    /\ UNCHANGED <<wallet, issued, last, signed, payload, decoded>>

\* signature = this._keypair.signDecorated(hash(signatureBase))
SignSign ==
    /\ call.pc = "sign"
    /\ call' = [call EXCEPT !.pc = "return",
                            !.signature =
                                <<"signature", KeypairAccountId(wallet.keypair),
                                  "hash">> \o call.base]
    /\ UNCHANGED <<wallet, issued, last, signed, payload, decoded>>

\* return the headers
SignReturn ==
    /\ call.pc = "return"
    /\ \E now \in FineReadings :
          signed' = [validUntil |-> headerValidUntil(wallet, call, now),
                     publicKey |-> KeypairAccountId(wallet.keypair),
                     signature |-> call.signature,
                     base |-> call.base]
    /\ last' = Outcome("signRequest",
                       [NoArgs EXCEPT !.uri = call.uri, !.now = call.now],
                       Returned(<<"hash", "signDecorated">>, wallet, NoArtifact,
                                NoId),
                       wallet.id)
    /\ call' = [call EXCEPT !.pc = "done"]
    /\ UNCHANGED <<wallet, issued, payload, decoded>>

(***************************************************************************)
(* An operation is built, serialised, parsed and converted to an object.   *)
(***************************************************************************)
BuildOperation ==
    /\ \E builder \in Builders, source \in {Nil, "GA", "GB", "bad"},
          attrs \in {"attrs", "bad"} :
          LET built == buildOperation(builder, source, attrs)
          IN  decoded' = [NoDecoded EXCEPT
                             !.stage = IF built.ok THEN "built" ELSE "rejected",
                             !.builder = builder, !.source = source,
                             !.op = built.op]
    /\ UNCHANGED <<wallet, issued, last, signed, payload, call>>

SerializeOperation ==
    /\ decoded.stage = "built"
    /\ decoded' = [decoded EXCEPT !.stage = "serialized",
                                  !.bytes = toXDR(decoded.op)]
    /\ UNCHANGED <<wallet, issued, last, signed, payload, call>>

ParseOperation ==
    /\ decoded.stage = "serialized"
    /\ decoded' = [decoded EXCEPT !.stage = "parsed",
                                  !.op = fromXDR(decoded.bytes)]
    /\ UNCHANGED <<wallet, issued, last, signed, payload, call>>

\* an operation that comes from the ledger and not from a builder of this
\* library
ReceiveOperation ==
    /\ \E type \in OperationTypes, source \in {Nil, "GA", "GB"} :
          LET op == [sourceAccount |-> IF Truthy(source)
                                       THEN xdrAccountId(source) ELSE NoAccount,
                     switch |-> type, value |-> "attrs"]
          IN  decoded' = [NoDecoded EXCEPT !.stage = "parsed",
                                          !.op = fromXDR(toXDR(op)),
                                          !.bytes = toXDR(op)]
    /\ UNCHANGED <<wallet, issued, last, signed, payload, call>>

OperationToObject ==
    /\ decoded.stage = "parsed"
    /\ decoded' = [decoded EXCEPT !.stage = "object",
                                  !.object = operationToObject(decoded.op)]
    /\ UNCHANGED <<wallet, issued, last, signed, payload, call>>

SignRequest == SignRequestAt(UriInputs, ClockReadings)

SynchronizeTime == SynchronizeTimeAt(TimestampInputs, ClockReadings)

Next ==
    \/ Generate
    \/ FromEncrypted
    \/ FromRecoverySeed
    \/ DeriveId
    \/ GetId
    \/ Encrypt
    \/ EncryptRecoveryData
    \/ SignRequest
    \/ SynchronizeTime

Spec == Init /\ [][Next]_vars

\* the constructor alone, over every combination of arguments
SpecCtor == Init /\ [][Construct]_vars

\* signing and synchronising under a clock read with sub-second resolution
\* and server timestamps that leave a fractional clock difference
ClockSign == SignRequestAt(UriInputs, FineReadings)

ClockSync == SynchronizeTimeAt(SkewedTimestampInputs, FineReadings)

NextClock ==
    \/ Generate
    \/ ClockSign
    \/ ClockSync

SpecClock == Init /\ [][NextClock]_vars

\* one wallet, signRequest run statement by statement and synchronizeTime
\* running between any two statements, or between calls
InitSign ==
    /\ wallet \in {generate(email, KeypairFromSecret(seed)).wallet :
                     email \in Emails, seed \in Seeds}
    /\ issued = NoIssued
    /\ last = Outcome("generate", NoArgs,
                      Returned(<<>>, wallet, NoArtifact, NoId), NoId)
    /\ signed = NoSigned
    /\ payload = NoPayload
    /\ decoded = NoDecoded
    /\ call = NoCall

NextSign ==
    \/ SignEnter
    \/ SignReadTimestamp
    \/ SignBuildBase
    \/ SignSign
    \/ SignReturn
    \/ SynchronizeTime

SpecSign == InitSign /\ [][NextSign]_vars

\* operations from builders and from the wire, decoded
NextOps ==
    \/ BuildOperation
    \/ SerializeOperation
    \/ ParseOperation
    \/ ReceiveOperation
    \/ OperationToObject

SpecOps == Init /\ [][NextOps]_vars

\* the signature base alone, over every uri text and expiry
SpecPayload == Init /\ [][BuildSignatureBase]_vars

(***************************************************************************)
(* Properties.                                                             *)
(***************************************************************************)
\* the last call was fromEncrypted on the issued artifact with the email,
\* kdfParams, salt and password the artifact was made with
SameCredentials ==
    /\ last.args.kdfParams = issued.kdfParams
    /\ last.args.salt = issued.art.salt
    /\ last.args.email = issued.art.email
    /\ last.args.password = issued.password

Decrypting(kind) == last.op = "fromEncrypted" /\ issued.kind = kind

\* C1: an artifact returned by encrypt(k, p), given back to fromEncrypted with
\* its keychainData, salt and email and with k and p, yields a wallet with the
\* account id, email and secret seed of the encrypted wallet and the id of the
\* artifact.
RoundTrip ==
    (Decrypting("encrypt") /\ SameCredentials)
        => /\ last.ok
           /\ wallet.accountId = issued.owner.accountId
           /\ wallet.email = issued.owner.email
           /\ wallet.id = issued.art.id
           /\ KeypairSecret(wallet.keypair) = issued.owner.secret

RoundTripWitness ==
    /\ Decrypting("encrypt") /\ SameCredentials
    /\ last.ok
    /\ wallet.id = issued.art.id
    /\ KeypairSecret(wallet.keypair) = issued.owner.secret

\* C2: an artifact returned by encryptRecoveryData(k, R), given back to
\* fromEncrypted with R's secret as the password, yields a wallet whose secret
\* seed is the seed of the wallet it was called on, whatever R's seed is.
RecoveryRoundTrip ==
    (Decrypting("recovery") /\ SameCredentials)
        => /\ last.ok
           /\ issued.password = KeypairSecret(issued.recoveryKeypair)
           /\ KeypairSecret(wallet.keypair) = issued.owner.secret

RecoveryRoundTripWitness ==
    /\ Decrypting("recovery") /\ SameCredentials
    /\ last.ok
    /\ KeypairSecret(wallet.keypair) = issued.owner.secret
    /\ KeypairSecret(wallet.keypair) # KeypairSecret(issued.recoveryKeypair)

\* C3: fromEncrypted on an artifact of encrypt, with a password, kdfParams,
\* salt or email other than the one the artifact was made with, throws and
\* returns no wallet.
WrongCredentialsFail ==
    (Decrypting("encrypt") /\ ~SameCredentials) => ~last.ok

WrongCredentialsFailWitness ==
    /\ Decrypting("encrypt")
    /\ last.args.password # issued.password
    /\ last.args.kdfParams = issued.kdfParams
    /\ last.args.salt = issued.art.salt
    /\ last.args.email = issued.art.email
    /\ ~last.ok
    /\ last.err = "DecryptionError"

\* the operations called on a wallet
MethodOps == {"encrypt", "encryptRecoveryData", "signRequest", "synchronizeTime"}

\* C4 as claimed: once the wallet's walletId has a value, no operation on the
\* wallet changes it to another value.
WalletIdImmutable ==
    (last.op \in MethodOps /\ TruthyId(last.idBefore))
        => wallet.id = last.idBefore

\* C4: once the wallet's walletId has a value, only an encrypt call that
\* returns changes it, and it changes it to the id of the artifact it returns;
\* encryptRecoveryData, signRequest, synchronizeTime and a failing encrypt
\* leave it as it was.
WalletIdChangedOnlyByEncrypt ==
    (last.op \in MethodOps /\ TruthyId(last.idBefore) /\ wallet.id # last.idBefore)
        => /\ last.op = "encrypt"
           /\ last.ok
           /\ wallet.id = issued.art.id

WalletIdChangedOnlyByEncryptWitness ==
    /\ last.op = "encrypt"
    /\ last.ok
    /\ TruthyId(last.idBefore)
    /\ wallet.id # last.idBefore
    /\ wallet.id = issued.art.id

\* C5 as claimed: every wallet has an accountId equal to the public address of
\* its keypair.
AccountIdMatchesKeypair ==
    wallet.live => wallet.accountId = KeypairAccountId(wallet.keypair)

\* the plaintext inside an artifact's keychainData
PayloadOf(art) == JSONparse(art.keychainData.ciphertext)

\* C5: every wallet has a well-formed accountId; a wallet built by generate or
\* fromRecoverySeed has the public address of its keypair as accountId; a
\* wallet built by fromEncrypted has the accountId found in the keychain,
\* whatever its keypair is.
AccountIdWellFormed ==
    /\ wallet.live => isValidPublicKey(wallet.accountId)
    /\ (last.ok /\ last.op \in {"generate", "fromRecoverySeed"})
           => wallet.accountId = KeypairAccountId(wallet.keypair)
    /\ (last.ok /\ last.op = "fromEncrypted")
           => wallet.accountId = PayloadOf(issued.art).accountId

AccountIdWellFormedWitness ==
    /\ last.ok /\ last.op = "fromEncrypted"
    /\ wallet.live
    /\ isValidPublicKey(wallet.accountId)
    /\ wallet.accountId # KeypairAccountId(wallet.keypair)

\* C6 as claimed: the payload encrypted by encryptRecoveryData carries the
\* account id of the wallet it was called on.
RecoveryPayloadOwnAccount ==
    issued.kind = "recovery"
        => PayloadOf(issued.art).accountId = issued.owner.accountId

\* C6: the payload encrypted by encryptRecoveryData(k, R) carries the account
\* id of R together with the secret seed of the wallet it was called on, and
\* so does the wallet obtained by decrypting it with R's secret.
RecoveryPayloadRecoveryAccount ==
    issued.kind = "recovery"
        => /\ PayloadOf(issued.art).accountId
                  = KeypairAccountId(issued.recoveryKeypair)
           /\ PayloadOf(issued.art).seed = issued.owner.secret
           /\ issued.art.accountId = KeypairAccountId(issued.recoveryKeypair)
           /\ (last.op = "fromEncrypted" /\ last.ok)
                  => wallet.accountId = KeypairAccountId(issued.recoveryKeypair)

RecoveryPayloadRecoveryAccountWitness ==
    /\ issued.kind = "recovery"
    /\ issued.owner.accountId # KeypairAccountId(issued.recoveryKeypair)
    /\ last.op = "fromEncrypted" /\ last.ok
    /\ wallet.accountId = KeypairAccountId(issued.recoveryKeypair)
    /\ KeypairSecret(wallet.keypair) = issued.owner.secret

\* the errors of argument validation
ValidationErrors ==
    {"KDF params required", "Password must be a non-empty string",
     "URI required.", "Invalid timestamp.", "Email is required.",
     "No keypair provided.", "Invalid secret seed.", "Invalid keypair.",
     "Invalid account ID.", "Hex encoded wallet ID expected."}

\* C7: a call that throws leaves the wallet (email, keypair, accountId,
\* walletId, clockDiff) as it was, and an operation on the wallet that throws
\* on the validation of its arguments has called no crypto function.
FailuresLeaveWallet ==
    [][~last'.ok => /\ wallet' = wallet
                    /\ (last'.op \in MethodOps /\ last'.err \in ValidationErrors)
                           => last'.crypto = <<>>]_vars

FailuresLeaveWalletWitness ==
    /\ last.op = "encrypt"
    /\ ~last.ok
    /\ last.err = "EncryptionError"
    /\ last.crypto # <<>>
    /\ wallet.live
    /\ wallet.id = last.idBefore

\* a hex string
isHexId(id) == Len(id) = 1 /\ id[1] \in HexStrings

\* C8 as claimed: the constructor returns only for a non-empty email, a Keypair
\* instance or valid secret seed, a valid accountId and a walletId that is
\* absent or a hex string.
ConstructionValidated ==
    (last.op = "new" /\ last.ok)
        => /\ Truthy(last.args.email)
           /\ \/ last.args.keypair.kind = "Keypair"
              \/ /\ last.args.keypair.kind = "string"
                 /\ isValidSecretKey(last.args.keypair.val)
           /\ isValidPublicKey(last.args.accountId)
           /\ last.args.walletId # NoId => isHexId(last.args.walletId)

\* C9: every wallet id the library sets or returns is the id deriveId gives
\* for the credentials of the call: the id encrypt and encryptRecoveryData put
\* in the artifact (and encrypt stores in the wallet), and the id of the wallet
\* of fromEncrypted and fromRecoverySeed.
WalletIdIsDerived ==
    /\ (last.op = "encrypt" /\ last.ok)
           => /\ wallet.id = issued.art.id
              /\ last.id = issued.art.id
              /\ issued.art.id = deriveId(wallet.email, issued.password,
                                          issued.kdfParams, issued.art.salt).id
    /\ (last.op = "encryptRecoveryData" /\ last.ok)
           => issued.art.id = deriveId(wallet.email,
                                       KeypairSecret(issued.recoveryKeypair),
                                       issued.kdfParams, issued.art.salt).id
    /\ (last.op \in {"fromEncrypted", "fromRecoverySeed"} /\ last.ok)
           => wallet.id = deriveId(last.args.email, last.args.password,
                                   last.args.kdfParams, last.args.salt).id
    /\ (last.op = "deriveId" /\ last.ok)
           => last.id = hexFromBits(deriveWalletId(calculateMasterKey(
                            last.args.salt, last.args.email, last.args.password,
                            last.args.kdfParams)))

WalletIdIsDerivedWitness ==
    /\ last.op = "encrypt" /\ last.ok
    /\ TruthyId(wallet.id)
    /\ wallet.id = deriveId(wallet.email, issued.password, issued.kdfParams,
                            issued.art.salt).id

\* C10: encrypt changes at most the wallet id; synchronizeTime changes at most
\* clockDiff; signRequest, encryptRecoveryData, deriveId and the id getter
\* change no field of the wallet.
FrameOfOperations ==
    [][/\ last'.op = "encrypt" => wallet' = [wallet EXCEPT !.id = wallet'.id]
       /\ last'.op = "synchronizeTime"
              => wallet' = [wallet EXCEPT !.clockDiff = wallet'.clockDiff]
       /\ last'.op \in {"signRequest", "encryptRecoveryData", "deriveId", "id"}
              => wallet' = wallet]_vars

FrameOfOperationsWitness ==
    /\ last.op = "encryptRecoveryData" /\ last.ok
    /\ issued.kind = "recovery"
    /\ TruthyId(issued.art.id)
    /\ wallet.id = NoId

(***************************************************************************)
(* Expiry of a signed request.  Times of the claims are in seconds; the    *)
(* model holds them in milliseconds, so that a fraction of a second is an  *)
(* integer and the arithmetic is exact.                                    *)
(***************************************************************************)
Signing == last.op = "signRequest" /\ last.ok

\* floor(now - clockOffset) + 60, in seconds, for the call recorded in last
FlooredDifferenceExpiry ==
    (last.args.now - wallet.clockDiff) \div MsPerSec + SIGNATURE_VALID_SEC

(* C11, as claimed: for every clock reading and every clock offset, whole  *)
(* or fractional, signRequest emits validUntil = floor(now - clockOffset)  *)
(* + 60.                                                                   *)
ExpiryFloorsDifference ==
    Signing => signed.validUntil = ToString(FlooredDifferenceExpiry)

(* C11, amended: signRequest emits validUntil = floor(floor(now) -         *)
(* clockOffset) + 60; that is floor(now - clockOffset) + 60 when the       *)
(* offset is a whole number of seconds, and that or one second less when   *)
(* the offset has a fraction.                                              *)
ExpiryFloorsClockFirst ==
    Signing =>
        LET wholeNow == (last.args.now \div MsPerSec) * MsPerSec
        IN  /\ signed.validUntil =
                  ToString((wholeNow - wallet.clockDiff) \div MsPerSec
                           + SIGNATURE_VALID_SEC)
            /\ wallet.clockDiff % MsPerSec = 0
                  => signed.validUntil = ToString(FlooredDifferenceExpiry)
            /\ signed.validUntil \in {ToString(FlooredDifferenceExpiry),
                                      ToString(FlooredDifferenceExpiry - 1)}

\* a request signed at a fractional reading under a fractional offset, one
\* second short of floor(now - clockOffset) + 60
ExpiryFloorsClockFirstWitness ==
    /\ Signing
    /\ last.args.now % MsPerSec # 0
    /\ wallet.clockDiff % MsPerSec # 0
    /\ signed.validUntil = ToString(FlooredDifferenceExpiry - 1)

(***************************************************************************)
(* Clock compensation: a step that signs a request right after a           *)
(* successful synchronizeTime(t), d >= 0 milliseconds of local time later. *)
(***************************************************************************)
SignsAfterSync ==
    /\ last.op = "synchronizeTime" /\ last.ok
    /\ last'.op = "signRequest" /\ last'.ok
    /\ last'.args.now >= last.args.now

\* server time at the moment of signing: t + d
ServerTimeAtSigning ==
    last.args.timestamp.val + (last'.args.now - last.args.now)

SyncStoresLocalMinusServer ==
    (last'.op = "synchronizeTime" /\ last'.ok)
        => wallet'.clockDiff = last'.args.now - last'.args.timestamp.val

ExpirySeconds == 0..(2 * SIGNATURE_VALID_SEC)

(* C12, as claimed: synchronizeTime(t) sets clockOffset = localNow - t,    *)
(* and a signRequest d seconds of local time later emits a validUntil      *)
(* within one second of t + d + 60 that is not in the past for the server. *)
CompensatedWithinOneSecond ==
    [][/\ SyncStoresLocalMinusServer
       /\ SignsAfterSync =>
             \E v \in ExpirySeconds :
                 /\ signed'.validUntil = ToString(v)
                 /\ v * MsPerSec
                       >= ServerTimeAtSigning
                            + (SIGNATURE_VALID_SEC - 1) * MsPerSec
                 /\ v * MsPerSec
                       <= ServerTimeAtSigning
                            + (SIGNATURE_VALID_SEC + 1) * MsPerSec
                 /\ v * MsPerSec > ServerTimeAtSigning]_vars

(* C12, amended: synchronizeTime(t) sets clockOffset = localNow - t, and a *)
(* signRequest d seconds of local time later emits a validUntil that is    *)
(* no later than t + d + 60 and less than two seconds earlier, hence not   *)
(* in the past for the server.                                             *)
CompensatedWithinTwoSeconds ==
    [][/\ SyncStoresLocalMinusServer
       /\ SignsAfterSync =>
             \E v \in ExpirySeconds :
                 /\ signed'.validUntil = ToString(v)
                 /\ v * MsPerSec
                       > ServerTimeAtSigning
                           + (SIGNATURE_VALID_SEC - 2) * MsPerSec
                 /\ v * MsPerSec
                       <= ServerTimeAtSigning + SIGNATURE_VALID_SEC * MsPerSec
                 /\ v * MsPerSec > ServerTimeAtSigning]_vars

\* a request signed under a clock difference that a synchronizeTime left,
\* whose expiry is more than one second short of server time plus 60
CompensatedWithinTwoSecondsWitness ==
    /\ Signing
    /\ wallet.clockDiff # 0
    /\ \E v \in ExpirySeconds :
          /\ signed.validUntil = ToString(v)
          /\ (v + 1) * MsPerSec
                < last.args.now - wallet.clockDiff
                    + SIGNATURE_VALID_SEC * MsPerSec

(***************************************************************************)
(* The signed payload.                                                     *)
(***************************************************************************)
(* C13: the signature base is injective: the text built for a uri and an   *)
(* expiry is built for no other pair of uri and expiry, also when the uri  *)
(* contains quotes, digits or the separator text of the template.          *)
SignatureBaseInjective ==
    \A uri \in UriTexts, validUntil \in ExpiryValues :
        signatureBaseText(uri, Decimal(validUntil)) = payload.text
            => uri = payload.uri /\ Decimal(validUntil) = payload.validUntil

\* the base of a uri that spells the separator of the template
SignatureBaseInjectiveWitness ==
    /\ payload.uri = <<Quote, ValidLabel, Quote>>
    /\ payload.text = signatureBaseText(payload.uri, Decimal(60))

(***************************************************************************)
(* Confidentiality of the seed.  Twin(w) is the wallet w under another     *)
(* secret seed with the same public key.  A call on w and the same call on *)
(* Twin(w) are compared: what they return outside the ciphertext must be   *)
(* equal, and the wallets they leave must be twins again, so that the      *)
(* comparison carries over every sequence of calls.                        *)
(***************************************************************************)
TwinSeed(s) == IF s = "SA" THEN "SA~" ELSE IF s = "SB" THEN "SB~" ELSE s

Twin(w) == [w EXCEPT !.keypair.val = TwinSeed(@)]

\* what a call returns, the keychainData ciphertext left out
Emitted(res) ==
    [ok |-> res.ok, err |-> res.err, id |-> res.id, artId |-> res.art.id,
     accountId |-> res.art.accountId, email |-> res.art.email,
     salt |-> res.art.salt]

SameButCiphertext(res, twinRes) ==
    /\ Emitted(res) = Emitted(twinRes)
    /\ twinRes.wallet = Twin(res.wallet)

EncryptInputs ==
    {"k1", "kbad", Nil} \X PasswordInputs \X Salts \X BOOLEAN

RecoveryInputs ==
    {"k1", "kbad", Nil} \X (RecoveryKeypairs \cup {NoKeypair}) \X Salts
        \X BOOLEAN

SignRequestReadsOnce ==
    (call.pc = "done" /\ Signing) =>
        /\ call.reads = 1
        /\ Len(signed.base) = 5
        /\ signed.base[2] = call.uri
        /\ signed.base[4] = signed.validUntil
        /\ signed.signature
              = <<"signature", KeypairAccountId(wallet.keypair), "hash">>
                    \o signed.base
        /\ signed.publicKey = KeypairAccountId(wallet.keypair)
        /\ signed = signRequest([wallet EXCEPT !.clockDiff = call.offset],
                                call.uri, call.now)

\* a call that returned after synchronizeTime had changed the offset it
\* read, to one that gives another expiry
SignRequestReadsOnceWitness ==
    /\ call.pc = "done"
    /\ Signing
    /\ wallet.clockDiff # call.offset
    /\ signed.validUntil # ToString(validUntilOf(wallet, call.now))

(***************************************************************************)
(* Lifecycle of the wallet id.                                             *)
(***************************************************************************)
\* the calls that leave a wallet without id as it is: every method but an
\* encrypt that returns, and the calls that build no wallet
KeepsIdUnreadable ==
    /\ last.op \in MethodOps \cup {"id", "deriveId"}
    /\ ~(last.op = "encrypt" /\ last.ok)

(* C17: a wallet made by generate has no wallet id and the address of its  *)
(* keypair as account id; while a wallet has no id, reading id throws, and *)
(* signRequest, synchronizeTime, encryptRecoveryData and a failed encrypt  *)
(* leave it without id; after an encrypt that returned, and right after    *)
(* fromEncrypted and fromRecoverySeed, reading id returns the id.          *)
IdReadableAfterEncrypt ==
    /\ (last.op = "generate" /\ last.ok)
          => /\ wallet.id = NoId
             /\ ~getId(wallet).ok
             /\ wallet.accountId = KeypairAccountId(wallet.keypair)
    /\ (KeepsIdUnreadable /\ ~TruthyId(last.idBefore))
          => /\ ~TruthyId(wallet.id)
             /\ ~getId(wallet).ok
    /\ last.op = "id"
          => /\ last.ok <=> TruthyId(last.idBefore)
             /\ last.ok => last.id = wallet.id
             /\ ~last.ok => last.err = "This wallet has no wallet ID yet."
    /\ (last.ok /\ last.op \in {"encrypt", "fromEncrypted", "fromRecoverySeed"})
          => /\ TruthyId(wallet.id)
             /\ getId(wallet) = Returned(<<>>, wallet, NoArtifact, wallet.id)

\* reading id throws on a wallet whose encryptRecoveryData has returned an
\* artifact
IdReadableAfterEncryptWitness ==
    /\ issued.kind = "recovery"
    /\ last.op = "id"
    /\ ~last.ok
    /\ wallet.live

(***************************************************************************)
(* Decoding of operations.                                                 *)
(***************************************************************************)
Decoded == decoded.stage = "object"

\* the operation came from a builder of the library
FromBuilder == decoded.builder # Nil

(* C15, as claimed: for every operation a builder produced, serialised and *)
(* parsed back, operationToObject returns an object whose type is the name *)
(* of the discriminant of the body; source is set exactly when the         *)
(* operation has a source account; 'Unknown operation' is thrown only for  *)
(* a discriminant outside the handled set.                                 *)
DecodeReportsType ==
    Decoded =>
        /\ FromBuilder
              => /\ decoded.object.ok
                 /\ decoded.object.type = BuiltBody(decoded.builder)
                 /\ decoded.object.source = decoded.source
        /\ decoded.object.ok
              => /\ decoded.object.type = decoded.op.switch
                 /\ decoded.object.source # Nil
                       <=> decoded.op.sourceAccount # NoAccount
        /\ ~decoded.object.ok
              => /\ decoded.object.err = "Unknown operation"
                 /\ decoded.op.switch \notin HandledTypes

\* what does hold of the decoder: the same, for the builders whose arm has a
\* case
DecodeReportsHandledType ==
    Decoded =>
        /\ (FromBuilder /\ BuiltBody(decoded.builder) \in HandledTypes)
              => /\ decoded.object.ok
                 /\ decoded.object.type = BuiltBody(decoded.builder)
                 /\ decoded.object.source = decoded.source
        /\ decoded.object.ok
              => /\ decoded.object.type = decoded.op.switch
                 /\ decoded.object.source # Nil
                       <=> decoded.op.sourceAccount # NoAccount
        /\ ~decoded.object.ok
              => /\ decoded.object.err = "Unknown operation"
                 /\ decoded.op.switch \notin HandledTypes
====
